---------------------------- MODULE Spec2Model ----------------------------
(***************************************************************************)
(* State-machine model of crawler.py: the retrying fetcher get_soup, the   *)
(* two fan-out phases (load_config_from_web, load_data) and the two cache  *)
(* gates (load_config, load_data) over url.json and output.json.           *)
(*                                                                         *)
(* Strings that the code inspects character by character (season names)    *)
(* are sequences of one-character strings.  The labels of the site are     *)
(* written in ASCII: "regular" = 例行賽, "playoffs" = 季後賽,              *)
(* "finals" = 總冠軍賽, "total" = 累計數據, "avg" = 平均數據.              *)
(***************************************************************************)
EXTENDS Integers, Sequences, FiniteSets, TLC

VARIABLES
    \* ---- the environment: files and the web site
    cfgFile,     \* url.json    (CONFIG_FILENAME)
    dataFile,    \* output.json (DATA_FILENAME)
    site,        \* contents of the pages of the web site, fixed during a behaviour
    \* ---- one run of load_data
    run,         \* number of the current run of the program
    pc,          \* position of the load_data coroutine
    root,        \* the get_soup call of load_config_from_web for the landing page
    tasks,       \* asyncio tasks created by the current phase and not yet drained
    config,      \* local `config` (load_config_from_web, load_config, load_data)
    database,    \* local `database` of load_data
    outcome,     \* how the run ended: value returned or exception propagated
    log,         \* what the run has done so far (history)
    start,       \* the two files as they were when the run started (history)
    prev,        \* what the previous run resolved and persisted (history)
    \* ---- a single call of get_soup, observed on its own
    call,        \* [url, budget, frames, result, hist]
    \* ---- a single call of is_valid_config, observed on its own
    probe        \* [input, result]

vars == <<cfgFile, dataFile, site, run, pc, root, tasks, config, database,
          outcome, log, start, prev, call, probe>>

pipeVars == <<cfgFile, dataFile, site, run, pc, root, tasks, config, database,
              outcome, log, start, prev>>

-----------------------------------------------------------------------------
(* Bounds of the model *)

\* largest retry budget a single observed get_soup call is given
MaxRetries == 3
\* largest number of <option> entries of the landing page's season list
MaxSeasons == 2
\* number of consecutive runs of the program over the same files
MaxRuns == 2
\* longest season key, in characters, among the generated validator inputs
MaxKeyLen == 4

(* Program constants *)

\* default of the `retries` parameter of get_soup / get_season
DefaultRetries == 2

-----------------------------------------------------------------------------
(* Python values: dict and str, tagged so that isinstance can be asked. *)

PyDict(f) == [t |-> "dict", v |-> f]
PyStr(s) == [t |-> "str", v |-> s]
EmptyDict == PyDict(<<>>)
IsDict(x) == x.t = "dict"
Keys(d) == DOMAIN d.v

\* d[k] = x on a dict
DictSet(d, k, x) ==
    PyDict([j \in Keys(d) \cup {k} |-> IF j = k THEN x ELSE d.v[j]])

\* season names, as the characters the validator splits and parses
S2223 == <<"2", "0", "2", "2", "-", "2", "3">>
S2324 == <<"2", "0", "2", "3", "-", "2", "4">>
S2325 == <<"2", "0", "2", "3", "-", "2", "5">>

\* f"{URL}/{season}"
SeasonUrl(season) == <<"URL", "/", season>>
\* f"{URL}/{season}/{season_type_value}#record"
RecordUrl(season, value) == <<"URL", "/", season, "/", value, "#record">>


-----------------------------------------------------------------------------
(* Files and JSON text (json.dump / json.loads, load_from_file). *)

\* a text json.loads rejects with JSONDecodeError
Garbage == [j |-> "garbage"]
NoFile == [exists |-> FALSE, text |-> Garbage]
FileOf(text) == [exists |-> TRUE, text |-> text]

RECURSIVE Dumps(_)
\* json.dumps: an object's members are its key/value pairs, a str is a string
Dumps(x) ==
    IF IsDict(x)
    THEN [j |-> "object", members |-> {<<k, Dumps(x.v[k])>> : k \in Keys(x)}]
    ELSE [j |-> "string", s |-> x.v]

RECURSIVE Loads(_)
\* json.loads of a text that parses
Loads(text) ==
    IF text.j = "object"
    THEN PyDict([k \in {m[1] : m \in text.members} |->
                    Loads((CHOOSE m \in text.members : m[1] = k)[2])])
    ELSE PyStr(text.s)

\* load_from_file + json.loads: the value, or the exception raised
ReadJson(file) ==
    IF ~file.exists THEN [ok |-> FALSE, exc |-> "FileNotFoundError"]
    ELSE IF file.text = Garbage THEN [ok |-> FALSE, exc |-> "JSONDecodeError"]
    ELSE [ok |-> TRUE, value |-> Loads(file.text)]

-----------------------------------------------------------------------------
(* is_valid_config *)

default_season_type == {"regular", "playoffs", "finals"}

DigitChars == {"0", "1", "2", "3", "4", "5", "6", "7", "8", "9"}
DigitVal(c) ==
    CASE c = "0" -> 0 [] c = "1" -> 1 [] c = "2" -> 2 [] c = "3" -> 3
      [] c = "4" -> 4 [] c = "5" -> 5 [] c = "6" -> 6 [] c = "7" -> 7
      [] c = "8" -> 8 [] c = "9" -> 9

\* str.split("-", 1): at most one split, at the first "-"
SplitFirstDash(s) ==
    LET dashes == {i \in 1..Len(s) : s[i] = "-"} IN
    IF dashes = {} THEN <<s>>
    ELSE LET i == CHOOSE d \in dashes : \A e \in dashes : d <= e
         IN <<SubSeq(s, 1, i - 1), SubSeq(s, i + 1, Len(s))>>

Unsigned(s) == IF s # <<>> /\ s[1] \in {"-", "+"} THEN Tail(s) ELSE s
\* whether int(s) succeeds: an optional sign and at least one digit
IsInt(s) == Unsigned(s) # <<>> /\ \A i \in 1..Len(Unsigned(s)) : Unsigned(s)[i] \in DigitChars

RECURSIVE DigitsValue(_)
DigitsValue(s) ==
    IF s = <<>> THEN 0
    ELSE 10 * DigitsValue(SubSeq(s, 1, Len(s) - 1)) + DigitVal(s[Len(s)])

\* int(s), for s with IsInt(s)
IntOf(s) ==
    IF s[1] = "-" THEN 0 - DigitsValue(Unsigned(s)) ELSE DigitsValue(Unsigned(s))

\* first_year + 1 != second_year: the century is not taken off
SeasonKeyOkWithoutMod(season) ==
    LET parts == SplitFirstDash(season) IN
    /\ Len(parts) = 2
    /\ IsInt(parts[1])
    /\ IsInt(parts[2])
    /\ IntOf(parts[1]) + 1 = IntOf(parts[2])

\* the check of one season key of is_valid_config
SeasonKeyOk(season) ==
    LET parts == SplitFirstDash(season) IN
    /\ Len(parts) = 2
    /\ IsInt(parts[1])
    /\ IsInt(parts[2])
    /\ (IntOf(parts[1]) % 100) + 1 = IntOf(parts[2])

\* a config without seasons, or a season without types, is rejected too
is_valid_config_nonempty(cfg) ==
    /\ IsDict(cfg)
    /\ Keys(cfg) # {}
    /\ \A season \in Keys(cfg) :
          /\ IsDict(cfg.v[season])
          /\ SeasonKeyOk(season)
          /\ Keys(cfg.v[season]) # {}
          /\ \A season_type \in Keys(cfg.v[season]) :
                season_type \in default_season_type

\* TRUE when is_valid_config(config) returns, FALSE when it raises ValueError
is_valid_config(cfg) ==
    /\ IsDict(cfg)
    /\ \A season \in Keys(cfg) :
          /\ IsDict(cfg.v[season])
          /\ SeasonKeyOk(season)
          /\ \A season_type \in Keys(cfg.v[season]) :
                season_type \in default_season_type

-----------------------------------------------------------------------------
(* get_soup: one frame per active (recursive) call; frames[i] is the value  *)
(* of `retries` in that frame, the last frame awaits client.get.            *)

\* what one client.get + raise_for_status can end in
Outcomes == {"ok", "timeout", "status", "transport"}

NewCall(retries) == [frames |-> <<retries>>, result |-> "pending"]
Finished(result) == [frames |-> <<>>, result |-> result]
Pending(c) == c.result = "pending"

Retries(c) == c.frames[Len(c.frames)]

\* off by one: the handler retries while retries >= 0
RetryAllowedOffByOne(retries) == retries >= 0

\* `if retries > 0` of the TimeoutException handler, line 108
RetryAllowed(retries) == retries > 0

\* except httpx.TimeoutException, lines 107-115: the frame calls get_soup
\* again with one retry less, or raises
HandleTimeout(c) ==
    IF RetryAllowed(Retries(c))
    THEN [c EXCEPT !.frames = Append(@, Retries(c) - 1)]
    ELSE Finished("timeout")

\* a status error handled like a timeout
HandleStatusRetrying(c) ==
    IF Retries(c) > 0
    THEN [c EXCEPT !.frames = Append(@, Retries(c) - 1)]
    ELSE Finished("status")

\* except httpx.HTTPStatusError, lines 116-121; the exception leaves every
\* outer frame, each of which awaits inside its TimeoutException handler
HandleStatus(c) == Finished("status")

\* except httpx.RequestError, lines 122-124
HandleRequestError(c) == Finished("transport")

\* line 125 in the innermost frame: the outermost frame returns the soup to
\* the caller; an inner frame returns it to line 110, where it is dropped,
\* and lines 111-115 raise the TimeoutException of that outer frame
ReturnSoup(c) ==
    IF Len(c.frames) = 1 THEN Finished("ok") ELSE Finished("timeout")

\* the attempt awaited by the innermost frame ends in outcome `o`
GetSoupStep(c, o) ==
    CASE o = "ok" -> ReturnSoup(c)
      [] o = "timeout" -> HandleTimeout(c)
      [] o = "status" -> HandleStatus(c)
      [] o = "transport" -> HandleRequestError(c)

-----------------------------------------------------------------------------
(* The web site: what the parsed documents hold. *)

WebSeasons == {S2223, S2324}

SeasonOption(season) == [text |-> season]
StageOption(label, value) == [text |-> label, attrs |-> ("value" :> value)]
BareOption(label) == [text |-> label, attrs |-> <<>>]

SeqsUpTo(S, n) == UNION {[1..k -> S] : k \in 0..n}

\* the site lists its seasons newest first; an entry may be repeated
NewestFirst(names) ==
    \A i \in 1..(Len(names) - 1) : names[i] = S2223 => names[i + 1] = S2223

\* landing pages: no id="season_name" element, or one with 0..MaxSeasons options
Landings ==
    {[found |-> FALSE, options |-> <<>>]}
    \cup {[found |-> TRUE, options |-> [i \in DOMAIN names |-> SeasonOption(names[i])]] :
             names \in {n \in SeqsUpTo(WebSeasons, MaxSeasons) : NewestFirst(n)}}

\* season pages: no id="stage_sn" element, no option, or some option lists;
\* the finished season has two season types, the running one a single one
NoStagePage == [found |-> FALSE, options |-> <<>>]
NoOptionPage == [found |-> TRUE, options |-> <<>>]
SeasonPages(season) ==
    IF season = S2223
    THEN { NoStagePage,
           [found |-> TRUE, options |-> <<StageOption("regular", "001"),
                                          StageOption("playoffs", "002")>>],
           [found |-> TRUE, options |-> <<StageOption("regular", "001"),
                                          BareOption("playoffs")>>] }
    ELSE { NoOptionPage,
           [found |-> TRUE, options |-> <<StageOption("regular", "001")>>],
           [found |-> TRUE, options |-> <<StageOption("preseason", "003")>>] }

\* the page of a season the landing page does not list: it is never fetched
Unfetched(season) == CHOOSE p \in SeasonPages(season) : p.options = <<>>

\* stat pages whose document may lack its <tbody>, or the data-avg
\* attribute of a cell
BreakableUrls == {RecordUrl(S2324, "001")}

Listed(landing) == {landing.options[i].text : i \in DOMAIN landing.options}

\* the stat pages the season pages of a site link to
Linked(pages) ==
    {RecordUrl(x, pages[x].options[i].attrs["value"]) :
        <<x, i>> \in {<<y, j>> \in WebSeasons \X (1..2) :
                        /\ j \in DOMAIN pages[y].options
                        /\ "value" \in DOMAIN pages[y].options[j].attrs}}

\* the sites: a page is chosen for every season the landing page lists, and
\* only a stat page that a season page links to may lack its <tbody> or an
\* attribute
Sites ==
    {s \in [landing : Landings,
            pages : {f \in [WebSeasons -> UNION {SeasonPages(x) : x \in WebSeasons}] :
                        \A x \in WebSeasons : f[x] \in SeasonPages(x)},
            noTbody : SUBSET BreakableUrls,
            noAttr : SUBSET BreakableUrls] :
        /\ \A x \in WebSeasons \ Listed(s.landing) : s.pages[x] = Unfetched(x)
        /\ s.noTbody \subseteq Linked(s.pages)
        /\ s.noAttr \subseteq Linked(s.pages) \ s.noTbody}

\* the document served at a stat page: one row, a cell per statistic
StatPage(url) ==
    [tbody |-> url \notin site.noTbody,
     rows |-> << [player |-> "P1",
                  cols |-> << ("data-total" :> <<"7">> \o url
                                  @@ "data-avg" :> <<"7.0">> \o url),
                              IF url \in site.noAttr
                              THEN ("data-total" :> <<"team">>)
                              ELSE ("data-total" :> <<"team">>
                                       @@ "data-avg" :> <<"team">>) >>] >>]

-----------------------------------------------------------------------------
(* Extraction *)

Ok(x) == [ok |-> TRUE, value |-> x, exc |-> "none"]
Raise(e) == [ok |-> FALSE, value |-> EmptyDict, exc |-> e]

\* the exception a get_soup call that did not return re-raises
FetchExc(result) ==
    CASE result = "timeout" -> "TimeoutException"
      [] result = "status" -> "HTTPStatusError"
      [] result = "transport" -> "RequestError"

\* load_config_from_web, lines 160-166: the season names of the landing page
ExtractSeasons(page) ==
    IF ~page.found THEN Raise("ElementNotFoundError")
    ELSE IF Len(page.options) = 0 THEN Raise("ElementNotFoundError")
    ELSE [ok |-> TRUE, value |-> [i \in DOMAIN page.options |-> page.options[i].text],
          exc |-> "none"]

RECURSIVE SeasonConfig(_, _, _)
\* the loop over the options of one season page, lines 182-189
SeasonConfig(season, options, acc) ==
    IF options = <<>> THEN Ok(acc)
    ELSE LET option == Head(options) IN
         IF "value" \notin DOMAIN option.attrs THEN Raise("MissingAttributeError")
         ELSE SeasonConfig(season, Tail(options),
                  DictSet(acc, option.text,
                          PyStr(RecordUrl(season, option.attrs["value"]))))

\* `config = {season: season_config}`: the dict is rebuilt for every task
SeasonMergeRebuilding(cfg, task) ==
    IF task.call.result # "ok" THEN Raise(FetchExc(task.call.result))
    ELSE LET page == site.pages[task.season] IN
         IF ~page.found THEN Raise("ElementNotFoundError")
         ELSE IF Len(page.options) = 0 THEN Raise("ElementNotFoundError")
         ELSE LET sc == SeasonConfig(task.season, page.options, EmptyDict) IN
              IF sc.ok THEN Ok(DictSet(EmptyDict, task.season, sc.value)) ELSE sc

\* the body of `for task in done` of load_config_from_web, lines 174-189
SeasonMerge(cfg, task) ==
    IF task.call.result # "ok" THEN Raise(FetchExc(task.call.result))
    ELSE LET page == site.pages[task.season] IN
         IF ~page.found THEN Raise("ElementNotFoundError")
         ELSE IF Len(page.options) = 0 THEN Raise("ElementNotFoundError")
         ELSE LET sc == SeasonConfig(task.season, page.options, EmptyDict) IN
              IF sc.ok THEN Ok(DictSet(cfg, task.season, sc.value)) ELSE sc

\* PER_MODE and (the first entries of) STATS_NAME
PER_MODE == <<[name |-> "total", attr |-> "data-total"],
              [name |-> "avg", attr |-> "data-avg"]>>
STATS_NAME == <<"jersey", "team">>

\* dict(zip(STATS_NAME, player_data)) for one row and one mode
RowStat(row, attr) ==
    LET n == IF Len(row.cols) < Len(STATS_NAME) THEN Len(row.cols) ELSE Len(STATS_NAME) IN
    PyDict([k \in {STATS_NAME[i] : i \in 1..n} |->
               PyStr(row.cols[CHOOSE i \in 1..n : STATS_NAME[i] = k][attr])])

\* parse_webpage, lines 301-314, on the document it fetched
ParseWebpage(page) ==
    IF ~page.tbody THEN Raise("AttributeError")
    ELSE IF \E i \in DOMAIN page.rows, m \in DOMAIN PER_MODE :
               \E c \in DOMAIN page.rows[i].cols :
                  PER_MODE[m].attr \notin DOMAIN page.rows[i].cols[c]
    THEN Raise("KeyError")
    ELSE Ok(PyDict([p \in {page.rows[i].player : i \in DOMAIN page.rows} |->
             LET last == CHOOSE i \in DOMAIN page.rows :
                            /\ page.rows[i].player = p
                            /\ \A j \in DOMAIN page.rows :
                                  page.rows[j].player = p => j <= i
             IN PyDict([mode \in {PER_MODE[m].name : m \in DOMAIN PER_MODE} |->
                    RowStat(page.rows[last],
                            PER_MODE[CHOOSE m \in DOMAIN PER_MODE :
                                        PER_MODE[m].name = mode].attr)])]))

\* a task that failed is skipped instead of aborting the phase
DataMergeSkippingFailures(db, task) ==
    IF task.call.result # "ok" THEN Ok(db)
    ELSE LET parsed == ParseWebpage(StatPage(task.url)) IN
         IF ~parsed.ok THEN Ok(db)
         ELSE Ok(DictSet(db, task.season,
                     DictSet(db.v[task.season], task.season_type, parsed.value)))

\* database[season] = {season_type: data}: the season's entry is replaced
DataMergeReplacingSeason(db, task) ==
    IF task.call.result # "ok" THEN Raise(FetchExc(task.call.result))
    ELSE LET parsed == ParseWebpage(StatPage(task.url)) IN
         IF ~parsed.ok THEN parsed
         ELSE Ok(DictSet(db, task.season,
                     DictSet(EmptyDict, task.season_type, parsed.value)))

\* the body of `for task in done` of load_data, lines 361-362
DataMerge(db, task) ==
    IF task.call.result # "ok" THEN Raise(FetchExc(task.call.result))
    ELSE LET parsed == ParseWebpage(StatPage(task.url)) IN
         IF ~parsed.ok THEN parsed
         ELSE Ok(DictSet(db, task.season,
                     DictSet(db.v[task.season], task.season_type, parsed.value)))

-----------------------------------------------------------------------------
(* The pipeline: load_data, load_config, load_config_from_web. *)

Running == [kind |-> "running", value |-> EmptyDict, exc |-> "none", phase |-> "none"]
Returned(x) == [kind |-> "returned", value |-> x, exc |-> "none", phase |-> "none"]
Raised(e, ph) == [kind |-> "raised", value |-> EmptyDict, exc |-> e, phase |-> ph]

NotStarted == [frames |-> <<>>, result |-> "none"]
NoTasks == <<>>
NoValue == [some |-> FALSE, value |-> EmptyDict]
Some(x) == [some |-> TRUE, value |-> x]

NoDrain == [first |-> {}, head |-> {}]

FreshLog ==
    [net |-> FALSE,           \* a GET has been issued in this run
     cfgSource |-> "none",    \* where load_config took its value from
     dataSource |-> "none",   \* where load_data took its value from
     cfgWrites |-> 0,         \* writes of url.json in this run
     dataWrites |-> 0,        \* writes of output.json in this run
     seasonTasks |-> 0,       \* tasks created by load_config_from_web
     dataTasks |-> 0,         \* tasks created by load_data
     abandoned |-> 0,         \* tasks still pending when the phase raised
     gates |-> <<>>,          \* the cache files read so far, in order
     first |-> {},            \* the task that completed first since the last wait
     done |-> NoDrain,        \* the last `done`: its first-completed task and
                              \* the task `for task in done` took first
     drainedAtWrite |-> TRUE] \* no task was left when output.json was written

\* configs and datasets found in the cache files of the first run
ValidCfg == PyDict(S2324 :> PyDict("regular" :> PyStr(RecordUrl(S2324, "001"))))
InvalidCfg == PyDict(S2325 :> PyDict("regular" :> PyStr(RecordUrl(S2325, "001"))))
CachedData == PyDict(S2324 :> PyDict("regular" :> PyDict("P0" :> EmptyDict)))

\* a config with a season and no season type
SeasonOnlyCfg == PyDict(S2324 :> EmptyDict)

CfgFiles == {NoFile, FileOf(Garbage), FileOf(Dumps(ValidCfg)), FileOf(Dumps(InvalidCfg)),
             FileOf(Dumps(EmptyDict)), FileOf(Dumps(SeasonOnlyCfg))}
DataFiles == {NoFile, FileOf(Garbage), FileOf(Dumps(CachedData))}
\* a first run finds at most one of the two files; later runs find what the
\* runs before them left
InitialFiles == {f \in CfgFiles \X DataFiles : f[1] = NoFile \/ f[2] = NoFile}

\* the dataset cache is never taken
DataCacheNeverHit(file) == FALSE

\* try-part of load_data, lines 333-338
DataCacheHit(file) == ReadJson(file).ok

\* the parsed config is returned without is_valid_config
ConfigCacheHitUnvalidated(file) == ReadJson(file).ok

\* try-part of load_config, lines 269-276
ConfigCacheHit(file) ==
    /\ ReadJson(file).ok
    /\ is_valid_config(ReadJson(file).value)

RECURSIVE Orders(_)
\* the orders in which `for task in done` can visit the set `done`
Orders(S) ==
    IF S = {} THEN {<<>>}
    ELSE UNION {{<<x>> \o t : t \in Orders(S \ {x})} : x \in S}

RECURSIVE DrainSeasons(_, _)
\* `for task in done` of load_config_from_web over the tasks `order`
DrainSeasons(order, cfg) ==
    IF order = <<>> THEN Ok(cfg)
    ELSE LET r == SeasonMerge(cfg, tasks[Head(order)]) IN
         IF r.ok THEN DrainSeasons(Tail(order), r.value) ELSE r

RECURSIVE DrainData(_, _)
\* `for task in done` of load_data over the tasks `order`
DrainData(order, db) ==
    IF order = <<>> THEN Ok(db)
    ELSE LET r == DataMerge(db, tasks[Head(order)]) IN
         IF r.ok THEN DrainData(Tail(order), r.value) ELSE r

\* `if tasks:` in place of `while tasks:`
MoreTasksNever(pending) == FALSE

\* `while True:` in place of `while tasks:`
MoreTasksAlways(pending) == TRUE

\* `while tasks:`, lines 169 and 355
MoreTasks(pending) == pending # {}

NewTask(season, season_type, url) ==
    [season |-> season, season_type |-> season_type, url |-> url,
     call |-> NewCall(DefaultRetries)]

\* seasons[:-1] in place of seasons
SeasonTasksButLast(seasons) ==
    [i \in 1..(Len(seasons) - 1) |-> NewTask(seasons[i], "none", SeasonUrl(seasons[i]))]

\* line 167: a task per entry of `seasons`
SeasonTasks(seasons) ==
    [i \in DOMAIN seasons |-> NewTask(seasons[i], "none", SeasonUrl(seasons[i]))]

\* `done` holds only the task that completed first
DoneTasksFirstOnly == log.first

\* the set `done` that asyncio.wait returns, lines 170 and 356
DoneTasks == {i \in DOMAIN tasks : ~Pending(tasks[i].call)}
PendingTasks == {i \in DOMAIN tasks : Pending(tasks[i].call)}
Restrict(f, S) == [i \in S |-> f[i]]

\* the (season, season_type) pairs of a config, lines 342-344
Pairs(cfg) == UNION {{<<s, ty>> : ty \in Keys(cfg.v[s])} : s \in Keys(cfg)}

\* an exception leaves the join loop: the tasks that are still pending are
\* not awaited again, and are cancelled when the program ends
Abandon(order) ==
    /\ log' = [log EXCEPT !.abandoned = Cardinality(PendingTasks),
                          !.first = {},
                          !.done = [first |-> log.first, head |-> {Head(order)}]]
    /\ tasks' = NoTasks

\* after `return json.loads(...)` the function goes on to load_config
ReadDataCacheFallingThrough ==
    /\ pc = "load_data"
    /\ pc' = "load_config"
    /\ log' = [log EXCEPT !.gates = Append(@, "output.json"),
                          !.dataSource = IF DataCacheHit(dataFile) THEN "cache" ELSE @]
    /\ UNCHANGED <<cfgFile, dataFile, site, run, root, tasks, config, database,
                   outcome, start, prev, call, probe>>

\* load_data, lines 333-338: the Dataset cache gate
ReadDataCache ==
    /\ pc = "load_data"
    /\ IF DataCacheHit(dataFile)
       THEN /\ pc' = "done"
            /\ outcome' = Returned(ReadJson(dataFile).value)
            /\ log' = [log EXCEPT !.dataSource = "cache",
                                  !.gates = Append(@, "output.json")]
       ELSE /\ pc' = "load_config"
            /\ log' = [log EXCEPT !.gates = Append(@, "output.json")]
            /\ outcome' = outcome
    /\ UNCHANGED <<cfgFile, dataFile, site, run, root, tasks, config, database,
                   start, prev, call, probe>>

\* load_config, lines 269-277, up to the first await of load_config_from_web
ReadConfigCache ==
    /\ pc = "load_config"
    /\ IF ConfigCacheHit(cfgFile)
       THEN /\ pc' = "spawn_data"
            /\ config' = ReadJson(cfgFile).value
            /\ log' = [log EXCEPT !.cfgSource = "cache",
                                  !.gates = Append(@, "url.json")]
            /\ root' = root
       ELSE /\ pc' = "landing"
            /\ root' = NewCall(DefaultRetries)
            /\ log' = [log EXCEPT !.net = TRUE,
                                  !.gates = Append(@, "url.json")]
            /\ config' = config
    /\ UNCHANGED <<cfgFile, dataFile, site, run, tasks, database, outcome,
                   start, prev, call, probe>>

\* one attempt of get_soup(client, URL) ends; when the call returns,
\* load_config_from_web runs on to its first asyncio.wait, lines 159-170
LandingAttempt ==
    /\ pc = "landing"
    /\ \E o \in Outcomes :
          LET c == GetSoupStep(root, o)
              seasons == ExtractSeasons(site.landing)
          IN /\ root' = c
             /\ IF Pending(c)
                THEN UNCHANGED <<pc, tasks, config, outcome, log>>
                ELSE IF c.result # "ok"
                THEN /\ pc' = "failed"
                     /\ outcome' = Raised(FetchExc(c.result), "config")
                     /\ UNCHANGED <<tasks, config, log>>
                ELSE IF ~seasons.ok
                THEN /\ pc' = "failed"
                     /\ outcome' = Raised(seasons.exc, "config")
                     /\ UNCHANGED <<tasks, config, log>>
                ELSE /\ tasks' = SeasonTasks(seasons.value)
                     /\ config' = EmptyDict
                     /\ log' = [log EXCEPT
                                  !.seasonTasks = Cardinality(DOMAIN SeasonTasks(seasons.value))]
                     /\ pc' = "seasons"
                     /\ outcome' = outcome
    /\ UNCHANGED <<cfgFile, dataFile, site, run, database, start, prev, call, probe>>

\* one attempt of the get_soup call of a task (get_season, parse_webpage) ends
TaskAttempt ==
    /\ pc \in {"seasons", "data"}
    /\ \E i \in PendingTasks, o \in Outcomes :
          LET c == GetSoupStep(tasks[i].call, o) IN
          /\ tasks' = [tasks EXCEPT ![i].call = c]
          /\ log' = IF ~Pending(c) /\ DoneTasks = {}
                    THEN [log EXCEPT !.first = {i}]
                    ELSE log
    /\ UNCHANGED <<cfgFile, dataFile, site, run, pc, root, config, database,
                   outcome, start, prev, call, probe>>

\* asyncio.wait returns in load_config_from_web and `done` is drained,
\* lines 169-190
WaitSeasons ==
    /\ pc = "seasons"
    /\ DoneTasks # {}
    /\ \E order \in Orders(DoneTasks) :
          LET r == DrainSeasons(order, config) IN
          IF r.ok
          THEN /\ tasks' = Restrict(tasks, PendingTasks)
               /\ config' = r.value
               /\ pc' = IF MoreTasks(PendingTasks) THEN "seasons" ELSE "persist_config"
               /\ log' = [log EXCEPT !.first = {},
                                     !.done = [first |-> log.first, head |-> {Head(order)}]]
               /\ outcome' = outcome
          ELSE /\ Abandon(order)
               /\ pc' = "failed"
               /\ outcome' = Raised(r.exc, "config")
               /\ config' = config
    /\ UNCHANGED <<cfgFile, dataFile, site, run, root, database, start, prev, call, probe>>

\* load_config, lines 278-280: the resolved config is written and returned
PersistConfig ==
    /\ pc = "persist_config"
    /\ cfgFile' = FileOf(Dumps(config))
    /\ log' = [log EXCEPT !.cfgSource = "web", !.cfgWrites = @ + 1,
                          !.done = NoDrain]
    /\ pc' = "spawn_data"
    /\ UNCHANGED <<dataFile, site, run, root, tasks, config, database, outcome,
                   start, prev, call, probe>>

\* load_data, lines 340-355: one task per (season, season_type)
SpawnData ==
    /\ pc = "spawn_data"
    /\ database' = PyDict([s \in Keys(config) |-> EmptyDict])
    /\ tasks' = [p \in Pairs(config) |->
                    NewTask(p[1], p[2], config.v[p[1]].v[p[2]].v)]
    /\ log' = [log EXCEPT !.dataTasks = Cardinality(Pairs(config)),
                          !.net = @ \/ Pairs(config) # {}]
    /\ pc' = IF MoreTasks(Pairs(config)) THEN "data" ELSE "persist_data"
    /\ UNCHANGED <<cfgFile, dataFile, site, run, root, config, outcome, start,
                   prev, call, probe>>

\* asyncio.wait returns in load_data and `done` is drained, lines 355-362
WaitData ==
    /\ pc = "data"
    /\ DoneTasks # {}
    /\ \E order \in Orders(DoneTasks) :
          LET r == DrainData(order, database) IN
          IF r.ok
          THEN /\ tasks' = Restrict(tasks, PendingTasks)
               /\ database' = r.value
               /\ pc' = IF MoreTasks(PendingTasks) THEN "data" ELSE "persist_data"
               /\ log' = [log EXCEPT !.first = {},
                                     !.done = [first |-> log.first, head |-> {Head(order)}]]
               /\ outcome' = outcome
          ELSE /\ Abandon(order)
               /\ pc' = "failed"
               /\ outcome' = Raised(r.exc, "data")
               /\ database' = database
    /\ UNCHANGED <<cfgFile, dataFile, site, run, root, config, start, prev, call, probe>>

\* load_data, lines 363-365: the dataset is written and returned
PersistData ==
    /\ pc = "persist_data"
    /\ dataFile' = FileOf(Dumps(database))
    /\ log' = [log EXCEPT !.dataSource = "web", !.dataWrites = @ + 1,
                          !.drainedAtWrite = (DOMAIN tasks = {}),
                          !.done = NoDrain]
    /\ outcome' = Returned(database)
    /\ pc' = "done"
    /\ UNCHANGED <<cfgFile, site, run, root, tasks, config, database, start,
                   prev, call, probe>>

\* the program is run again over the files the previous run left
NextRun ==
    /\ pc \in {"done", "failed"}
    /\ run < MaxRuns
    /\ run' = run + 1
    /\ pc' = "load_data"
    /\ root' = NotStarted
    /\ tasks' = NoTasks
    /\ config' = EmptyDict
    /\ database' = EmptyDict
    /\ outcome' = Running
    /\ log' = FreshLog
    /\ start' = [cfg |-> cfgFile, data |-> dataFile]
    /\ prev' = [cfg |-> IF log.cfgWrites > 0 THEN Some(config) ELSE NoValue,
                data |-> IF log.dataWrites > 0 THEN Some(database) ELSE NoValue]
    /\ UNCHANGED <<cfgFile, dataFile, site, call, probe>>

IdleCall == [url |-> <<>>, budget |-> 0, hist |-> <<>>, c |-> NotStarted]
IdleProbe == [input |-> EmptyDict, result |-> "none"]

Init ==
    /\ \E f \in InitialFiles : cfgFile = f[1] /\ dataFile = f[2]
    /\ site \in Sites
    /\ run = 1
    /\ pc = "load_data"
    /\ root = NotStarted
    /\ tasks = NoTasks
    /\ config = EmptyDict
    /\ database = EmptyDict
    /\ outcome = Running
    /\ log = FreshLog
    /\ start = [cfg |-> cfgFile, data |-> dataFile]
    /\ prev = [cfg |-> NoValue, data |-> NoValue]
    /\ call = IdleCall
    /\ probe = IdleProbe

Next ==
    \/ ReadDataCache
    \/ ReadConfigCache
    \/ LandingAttempt
    \/ TaskAttempt
    \/ WaitSeasons
    \/ PersistConfig
    \/ SpawnData
    \/ WaitData
    \/ PersistData
    \/ NextRun

Spec == Init /\ [][Next]_vars

\* every GET attempt ends, the event loop resumes a coroutine that can run,
\* and file operations end; whether the program is run again is left open
RunStep ==
    \/ ReadDataCache
    \/ ReadConfigCache
    \/ LandingAttempt
    \/ TaskAttempt
    \/ WaitSeasons
    \/ PersistConfig
    \/ SpawnData
    \/ WaitData
    \/ PersistData

Fairness == WF_vars(RunStep)

\* one run of load_data, from any initial files and any site
LiveNext == RunStep

SpecLive == Init /\ [][LiveNext]_vars /\ Fairness

-----------------------------------------------------------------------------
(* A single call of get_soup with any retry budget, observed on its own. *)

FetchUrls == {<<"URL">>, SeasonUrl(S2324), RecordUrl(S2324, "001")}

\* get_soup(client, url, retries) is called
CallGetSoup ==
    /\ call.c = NotStarted
    /\ \E url \in FetchUrls, retries \in 0..MaxRetries :
          call' = [url |-> url, budget |-> retries, hist |-> <<>>,
                   c |-> NewCall(retries)]
    /\ UNCHANGED <<pipeVars, probe>>

\* the GET the call is awaiting ends
FetchAttempt ==
    /\ Pending(call.c)
    /\ \E o \in Outcomes :
          call' = [call EXCEPT !.c = GetSoupStep(@, o), !.hist = Append(@, o)]
    /\ UNCHANGED <<pipeVars, probe>>

FetchInit ==
    /\ cfgFile = NoFile
    /\ dataFile = NoFile
    /\ site = [landing |-> [found |-> FALSE, options |-> <<>>],
               pages |-> [x \in WebSeasons |-> NoStagePage],
               noTbody |-> {},
               noAttr |-> {}]
    /\ run = 1
    /\ pc = "load_data"
    /\ root = NotStarted
    /\ tasks = NoTasks
    /\ config = EmptyDict
    /\ database = EmptyDict
    /\ outcome = Running
    /\ log = FreshLog
    /\ start = [cfg |-> NoFile, data |-> NoFile]
    /\ prev = [cfg |-> NoValue, data |-> NoValue]
    /\ call = IdleCall
    /\ probe = IdleProbe

FetchNext == CallGetSoup \/ FetchAttempt

SpecFetch == FetchInit /\ [][FetchNext]_vars

-----------------------------------------------------------------------------
(* A single call of is_valid_config on a given value, observed on its own. *)

\* the characters of the generated season keys
KeyChars == {"0", "1", "9", "-", "x"}
SignedKeys == {<<"+", "0", "-", "1">>, <<"0", "-", "+", "1">>,
               <<"9", "-", "-", "1", "0">>, <<"2", "0", "2", "3">>,
               <<"2", "0", "9", "9", "-", "1", "0", "0">>}
KeyInputs == SeqsUpTo(KeyChars, MaxKeyLen) \cup {S2223, S2324, S2325} \cup SignedKeys

SomeUrl == PyStr(RecordUrl(S2324, "001"))
\* what a season key may be mapped to
SeasonValues ==
    {EmptyDict,
     PyDict("regular" :> SomeUrl),
     PyDict("regular" :> SomeUrl @@ "playoffs" :> SomeUrl @@ "finals" :> SomeUrl),
     PyDict("regular" :> SomeUrl @@ "preseason" :> SomeUrl),
     PyDict("regular" :> EmptyDict),
     SomeUrl}

\* the values is_valid_config is called on: a str, the empty dict, dicts
\* of one season and dicts of two seasons
ValidatorInputs ==
    {SomeUrl, EmptyDict}
    \cup {PyDict(k :> x) : k \in KeyInputs, x \in SeasonValues}
    \cup {PyDict(S2324 :> x @@ k :> y) :
             k \in {S2223, S2325, <<"x">>}, x \in SeasonValues, y \in SeasonValues}

\* is_valid_config(probe.input) returns or raises
Validate ==
    /\ probe.result = "none"
    /\ probe' = [probe EXCEPT !.result =
                    IF is_valid_config(probe.input) THEN "returned" ELSE "ValueError"]
    /\ UNCHANGED <<pipeVars, call>>

ValidInit ==
    /\ cfgFile = NoFile
    /\ dataFile = NoFile
    /\ site = [landing |-> [found |-> FALSE, options |-> <<>>],
               pages |-> [x \in WebSeasons |-> NoStagePage],
               noTbody |-> {},
               noAttr |-> {}]
    /\ run = 1
    /\ pc = "load_data"
    /\ root = NotStarted
    /\ tasks = NoTasks
    /\ config = EmptyDict
    /\ database = EmptyDict
    /\ outcome = Running
    /\ log = FreshLog
    /\ start = [cfg |-> NoFile, data |-> NoFile]
    /\ prev = [cfg |-> NoValue, data |-> NoValue]
    /\ call = IdleCall
    /\ probe \in [input : ValidatorInputs, result : {"none"}]

ValidNext == Validate

SpecValid == ValidInit /\ [][ValidNext]_vars

-----------------------------------------------------------------------------
(* Claims about get_soup, checked under SpecFetch *)

AllTimeouts(h) == \A i \in 1..Len(h) : h[i] = "timeout"
Called == call.c # NotStarted

\* C1: a call with budget r >= 1 whose first k attempts time out (1 <= k <= r)
\* and whose (k+1)-th attempt succeeds returns the soup of that attempt and
\* signals no error.
C1_RetriedSuccessIsReturned ==
    \A k \in 1..call.budget :
        ( /\ Len(call.hist) = k + 1
          /\ AllTimeouts(SubSeq(call.hist, 1, k))
          /\ call.hist[k + 1] = "ok" )
        => call.c.result = "ok"

\* C2: when every attempt times out, a call with budget r makes exactly r + 1
\* attempts and then raises the timeout: never more than r + 1 attempts, and
\* no error while fewer than r + 1 attempts have timed out.
C2_TimeoutAfterBudgetPlusOne ==
    /\ Len(call.hist) <= call.budget + 1
    /\ (Called /\ AllTimeouts(call.hist) /\ Len(call.hist) <= call.budget)
          => Pending(call.c)
    /\ (Called /\ AllTimeouts(call.hist) /\ Len(call.hist) = call.budget + 1)
          => call.c.result = "timeout"

\* the default budget: three attempts, all timed out, and the timeout raised
C2_Witness ==
    /\ call.budget = DefaultRetries
    /\ call.hist = <<"timeout", "timeout", "timeout">>
    /\ call.c.result = "timeout"

\* C3: an attempt that ends in a status error or in a transport failure is
\* the last attempt of the call, whatever budget remains and whether or not
\* earlier attempts timed out, and the call ends with that error.
C3_NoRetryAfterError ==
    \A i \in 1..Len(call.hist) :
        call.hist[i] \in {"status", "transport"}
        => /\ i = Len(call.hist)
           /\ call.c.result = call.hist[i]

\* a status error after a timeout, with budget left
C3_Witness ==
    /\ call.budget = DefaultRetries
    /\ call.hist = <<"timeout", "status">>
    /\ call.c.result = "status"

-----------------------------------------------------------------------------
(* Claims about the cache gates and the fan-out phases, checked under Spec *)

Parses(file) == file.exists /\ file.text # Garbage
Corrupt(file) == file.exists /\ file.text = Garbage
ValidConfigFile(file) == Parses(file) /\ is_valid_config(Loads(file.text))
InvalidConfigFile(file) == Parses(file) /\ ~is_valid_config(Loads(file.text))
PastDataGate == pc # "load_data"
PastConfigGate == pc \notin {"load_data", "load_config"}

\* C4: a Dataset cache file that is present and parses makes load_data return
\* its content with no HTTP request and no file written; a Config cache file
\* that is present, parses and is valid makes load_config return its content
\* with no HTTP request and without writing the Config cache file.
C4_CacheHitShortCircuits ==
    /\ (PastDataGate /\ Parses(start.data))
          => /\ pc = "done"
             /\ outcome = Returned(Loads(start.data.text))
             /\ ~log.net /\ root = NotStarted /\ tasks = NoTasks
             /\ log.cfgWrites = 0 /\ log.dataWrites = 0
             /\ cfgFile = start.cfg /\ dataFile = start.data
    /\ (PastConfigGate /\ ~Parses(start.data) /\ ValidConfigFile(start.cfg))
          => /\ log.cfgSource = "cache"
             /\ config = Loads(start.cfg.text)
             /\ root = NotStarted /\ log.seasonTasks = 0
             /\ log.cfgWrites = 0 /\ cfgFile = start.cfg
             /\ (pc = "spawn_data" => ~log.net)

\* load_config has just returned the cached config
C4_Witness ==
    /\ pc = "spawn_data"
    /\ ValidConfigFile(start.cfg)
    /\ log.cfgSource = "cache"
    /\ config = ValidCfg
    /\ ~log.net

\* C5: a cache file that does not parse, and a Config cache file that parses
\* but fails is_valid_config, are treated like an absent file: the resolver
\* is invoked, its value overwrites the file and is returned, and no parse,
\* validation or file error reaches the caller.
C5_BadCacheIsAMiss ==
    /\ outcome.exc \notin {"JSONDecodeError", "ValueError", "FileNotFoundError"}
    /\ (PastDataGate /\ (~start.data.exists \/ Corrupt(start.data)))
          => /\ log.dataSource # "cache"
             /\ pc # "load_config" => (log.cfgSource # "none" \/ root # NotStarted)
             /\ pc = "done" => /\ log.dataSource = "web"
                               /\ log.dataWrites = 1
                               /\ dataFile = FileOf(Dumps(database))
                               /\ outcome = Returned(database)
    /\ (PastConfigGate /\ ~Parses(start.data)
           /\ (~start.cfg.exists \/ Corrupt(start.cfg) \/ InvalidConfigFile(start.cfg)))
          => /\ log.cfgSource # "cache"
             /\ root # NotStarted
             /\ log.net
             /\ log.cfgSource = "web" => /\ log.cfgWrites = 1
                                         /\ cfgFile = FileOf(Dumps(config))

\* a config that parses but is invalid has been replaced by a resolved one
C5_Witness ==
    /\ pc = "spawn_data"
    /\ start.cfg = FileOf(Dumps(InvalidCfg))
    /\ log.cfgSource = "web"
    /\ cfgFile = FileOf(Dumps(config))
    /\ cfgFile # start.cfg

\* the completed tasks whose fetch, or whose extraction, failed
FailedTasks ==
    {i \in DoneTasks :
        \/ tasks[i].call.result # "ok"
        \/ pc = "seasons" /\ ~SeasonMerge(EmptyDict, tasks[i]).ok
        \/ pc = "data" /\ ~ParseWebpage(StatPage(tasks[i].url)).ok}
Drains == DOMAIN tasks' # DOMAIN tasks /\ pc \in {"seasons", "data"}

\* C6: a phase one of whose tasks failed fails, and a phase that failed has
\* not written its cache file: url.json for load_config_from_web,
\* output.json for the tasks of load_data.
C6_FailedPhaseWritesNothing ==
    /\ [](outcome.kind = "raised" =>
            /\ outcome.phase = "config" => (log.cfgWrites = 0 /\ cfgFile = start.cfg)
            /\ log.dataWrites = 0 /\ dataFile = start.data)
    /\ [][(Drains /\ FailedTasks # {}) =>
            /\ pc' = "failed"
            /\ outcome'.kind = "raised"
            /\ outcome'.phase = (IF pc = "seasons" THEN "config" ELSE "data")
            /\ cfgFile' = cfgFile /\ dataFile' = dataFile]_vars

\* the tasks of load_data failed with another task still pending, after
\* url.json was written by this run
C6_Witness ==
    /\ pc = "failed"
    /\ outcome.phase = "data"
    /\ log.abandoned > 0
    /\ log.cfgWrites = 1
    /\ dataFile = start.data

\* C7: a run that resolves the Dataset writes output.json at most once, after
\* every task of load_data has completed and has been merged, and never
\* while a task is pending.
C7_DatasetWrittenOnceAtEnd ==
    /\ log.dataWrites <= 1
    /\ log.dataWrites = 1 =>
          /\ pc = "done"
          /\ log.drainedAtWrite
          /\ \A p \in Pairs(config) : p[2] \in Keys(database.v[p[1]])
    /\ pc # "done" => dataFile = start.data

\* three tasks were merged and the dataset written
C7_Witness ==
    /\ pc = "done"
    /\ log.dataWrites = 1
    /\ log.dataTasks = 3
    /\ dataFile = FileOf(Dumps(database))

OkTask(season, season_type, url) ==
    [NewTask(season, season_type, url) EXCEPT !.call = Finished("ok")]

RECURSIVE InSubmissionOrder(_, _)
\* the config built from the season pages taken in the order of the landing
\* page's options
InSubmissionOrder(seasons, cfg) ==
    IF seasons = <<>> THEN cfg
    ELSE InSubmissionOrder(Tail(seasons),
             SeasonMerge(cfg, OkTask(Head(seasons), "none", SeasonUrl(Head(seasons)))).value)

\* the dataset in which every pair of the config holds the table of its page
DatasetOf(cfg) ==
    PyDict([s \in Keys(cfg) |->
        PyDict([ty \in Keys(cfg.v[s]) |-> ParseWebpage(StatPage(cfg.v[s].v[ty].v)).value])])

\* C8: whatever the order in which the fetches complete, the Config returned
\* by load_config_from_web is the one built from the season pages in the
\* order of submission, and the Dataset is the one that holds, for every pair
\* of the Config, the table of its page.
C8_CompletionOrderIrrelevant ==
    /\ pc = "persist_config" =>
          config = InSubmissionOrder(ExtractSeasons(site.landing).value, EmptyDict)
    /\ pc = "persist_data" => database = DatasetOf(config)

\* two seasons were resolved
C8_Witness ==
    /\ pc = "persist_config"
    /\ Cardinality(Keys(config)) = 2
    /\ log.seasonTasks = 2

NumOptions == Len(site.landing.options)

\* C9 as stated: N entries in the season list give N fetches and, when all
\* succeed, a Config with exactly N top-level keys.
C9_OneKeyPerEntry ==
    /\ pc \in {"seasons", "persist_config"} => log.seasonTasks = NumOptions
    /\ pc = "persist_config" => Cardinality(Keys(config)) = NumOptions

\* C9 amended: N entries in the season list give N tasks, all created before
\* any is drained, and, when all succeed, a Config whose top-level keys are
\* the distinct season names among the N entries (N keys when the entries
\* are pairwise distinct).
C9_OneTaskPerEntryOneKeyPerName ==
    /\ [](pc \in {"seasons", "persist_config"} =>
            /\ log.seasonTasks = NumOptions
            /\ DOMAIN tasks \subseteq 1..NumOptions
            /\ \A i \in DOMAIN tasks : tasks[i].season = site.landing.options[i].text
            /\ Listed(site.landing) = Keys(config) \cup {tasks[i].season : i \in DOMAIN tasks})
    /\ [][pc = "landing" /\ pc' = "seasons" =>
            /\ DOMAIN tasks' = 1..NumOptions
            /\ \A i \in DOMAIN tasks' : Pending(tasks'[i].call)
            /\ config' = EmptyDict]_vars
    /\ [](pc = "persist_config" =>
            /\ Keys(config) = Listed(site.landing)
            /\ (Cardinality(Listed(site.landing)) = NumOptions
                  => Cardinality(Keys(config)) = NumOptions))

\* two distinct seasons listed, two keys
C9_Witness ==
    /\ pc = "persist_config"
    /\ NumOptions = 2
    /\ log.seasonTasks = 2
    /\ Cardinality(Keys(config)) = 2

\* C10: after a run that resolved and persisted a Config (a Dataset), the
\* next run over the same files gets a structurally equal value from the
\* file, with no HTTP request.
C10_RoundTrip ==
    /\ (run > 1 /\ prev.data.some /\ PastDataGate)
          => /\ pc = "done"
             /\ outcome = Returned(prev.data.value)
             /\ ~log.net
    /\ (run > 1 /\ prev.cfg.some /\ PastConfigGate /\ log.dataSource # "cache")
          => /\ log.cfgSource = "cache"
             /\ config = prev.cfg.value
             /\ root = NotStarted
             /\ log.seasonTasks = 0

-----------------------------------------------------------------------------
(* Claims about is_valid_config, checked under SpecValid *)

Digit(n) ==
    CASE n = 0 -> "0" [] n = 1 -> "1" [] n = 2 -> "2" [] n = 3 -> "3"
      [] n = 4 -> "4" [] n = 5 -> "5" [] n = 6 -> "6" [] n = 7 -> "7"
      [] n = 8 -> "8" [] n = 9 -> "9"

RECURSIVE Numeral(_)
\* the decimal numeral of a natural number
Numeral(n) == IF n < 10 THEN <<Digit(n)>> ELSE Numeral(n \div 10) \o <<Digit(n % 10)>>

\* s is a way of writing the integer n: a sign, zeros, the numeral
Denotes(s, n) ==
    \E sign \in {<<>>, <<"+">>, <<"-">>}, z \in 0..Len(s) :
        /\ s = sign \o [i \in 1..z |-> "0"] \o Numeral(IF n < 0 THEN 0 - n ELSE n)
        /\ (n < 0 => sign = <<"-">>)
        /\ (n > 0 => sign # <<"-">>)

\* s writes a natural number whose last two decimal digits make r
EndsIn(s, r) ==
    LET d == IF s # <<>> /\ s[1] = "+" THEN Tail(s) ELSE s IN
    /\ d # <<>>
    /\ \A i \in 1..Len(d) : d[i] \in DigitChars
    /\ IF Len(d) = 1 THEN d = Numeral(r)
       ELSE SubSeq(d, Len(d) - 1, Len(d)) = <<Digit(r \div 10), Digit(r % 10)>>

\* the key is a "-" b, split at its first "-", with (a mod 100) + 1 = b:
\* a ends in the two digits of some r in 0..99 and b is r + 1
KeyRule(season) ==
    \E i \in 1..Len(season) :
        /\ season[i] = "-"
        /\ \A j \in 1..(i - 1) : season[j] # "-"
        /\ \E r \in 0..99 :
              /\ EndsIn(SubSeq(season, 1, i - 1), r)
              /\ Denotes(SubSeq(season, i + 1, Len(season)), r + 1)

Accepted(x) ==
    /\ x.t = "dict"
    /\ \A season \in DOMAIN x.v :
          /\ KeyRule(season)
          /\ x.v[season].t = "dict"
          /\ DOMAIN x.v[season].v \subseteq {"regular", "playoffs", "finals"}

\* C11: is_valid_config returns without error exactly for the mappings whose
\* every season key splits at its first "-" into two integers a, b with
\* (a mod 100) + 1 = b, whose every season value is a mapping and whose every
\* season-type key is one of the three labels; for every other value it
\* raises.
C11_ValidatorCharacterised ==
    probe.result # "none" =>
        /\ probe.result = "returned" <=> Accepted(probe.input)
        /\ probe.result = "ValueError" <=> ~Accepted(probe.input)

\* the key "2023-25" is rejected although its value and its type are good
C11_Witness ==
    /\ probe.input = PyDict(S2325 :> PyDict("regular" :> SomeUrl))
    /\ probe.result = "ValueError"


-----------------------------------------------------------------------------
(* Claims about load_config and load_data, checked under Spec *)

\* C12: every Config that load_config has returned, from the cache file or
\* from load_config_from_web, passes is_valid_config, and so does every
\* Config it has written to url.json.
C12_ReturnedConfigIsValid ==
    /\ log.cfgSource # "none" => is_valid_config(config)
    /\ log.cfgWrites > 0 => /\ Parses(cfgFile)
                            /\ is_valid_config(Loads(cfgFile.text))

\* C13 as stated: in every run url.json is consulted before output.json.
C13_ConfigGateFirst ==
    log.gates # <<>> => log.gates[1] = "url.json"

\* C13 amended: in every run output.json is consulted first; url.json is
\* consulted only after output.json was missed, and not at all after a hit;
\* the tasks of load_data start only after both were consulted.
C13_DatasetGateFirst ==
    /\ log.gates \in {<<>>, <<"output.json">>, <<"output.json", "url.json">>}
    /\ pc = "load_data" <=> log.gates = <<>>
    /\ log.dataSource = "cache" => log.gates = <<"output.json">>
    /\ Len(log.gates) = 2 => ~DataCacheHit(start.data)
    /\ (log.cfgSource # "none" \/ root # NotStarted \/ log.dataTasks > 0)
          => log.gates = <<"output.json", "url.json">>

\* both files were read, in that order, and the tasks of load_data run
C13_Witness ==
    /\ pc = "data"
    /\ log.gates = <<"output.json", "url.json">>
    /\ log.cfgSource = "cache"

\* C14: when load_config_from_web or the task loop of load_data has ended,
\* by returning or by raising, none of the tasks it created is in flight.
C14_NoTaskOutlivesItsPhase ==
    /\ pc \in {"persist_config", "spawn_data", "persist_data", "done"}
          => PendingTasks = {}
    /\ pc = "failed" => log.abandoned = 0

\* C15 as stated: the task that completed first is the first one merged,
\* also among the tasks that one wait call returns together.
C15_MergedInCompletionOrder ==
    log.done.head = log.done.first

Completed == {i \in DOMAIN tasks : tasks[i].call.result # "pending"}
Merged(i) ==
    IF pc = "seasons" THEN tasks[i].season \in Keys(config')
    ELSE i[2] \in Keys(database'.v[i[1]])

\* C15 amended: every task that has completed when a wait call returns is
\* merged by the drain of that call, before any task that is still pending
\* then; the tasks one wait call returns together are merged in an order
\* that need not be their completion order.
C15_MergedBeforeLaterCompletions ==
    /\ [](pc \in {"seasons", "data"} =>
            /\ log.first \subseteq Completed
            /\ log.first = {} <=> Completed = {})
    /\ [][Drains =>
            /\ \A i \in DOMAIN tasks' : i \in DOMAIN tasks /\ Pending(tasks'[i].call)
            /\ \A i \in Completed : i \notin DOMAIN tasks'
            /\ pc' # "failed" => \A i \in Completed : Merged(i)
            /\ log'.done.first = log.first
            /\ log'.done.head \subseteq Completed
            /\ log'.first = {}]_vars

\* two tasks returned by one wait call, the one that completed later merged
\* first
C15_Witness ==
    /\ pc = "persist_data"
    /\ log.done.first # {}
    /\ log.done.head # log.done.first

\* the (season, season type) entries of a two-level mapping
Entries(d) == {e \in Keys(d) \X {"regular", "playoffs", "finals", "preseason"} :
                  e[2] \in Keys(d.v[e[1]])}
Resolving == pc \in {"data", "persist_data"} \/ (pc = "done" /\ log.dataSource = "web")

\* C16: on a Dataset miss load_data creates exactly one task per (season,
\* season type) of the Config, all of them before any is drained; while it
\* drains, the season keys of the dataset are those of the Config and merged
\* entries plus undrained tasks make the number of pairs; the Dataset that is
\* written has exactly the pairs of the Config, each with the table of the
\* page fetched for it.
C16_OneFetchPerPair ==
    /\ [][pc = "spawn_data" =>
            /\ DOMAIN tasks' = Entries(config)
            /\ \A e \in DOMAIN tasks' :
                  /\ Pending(tasks'[e].call)
                  /\ tasks'[e].url = config.v[e[1]].v[e[2]].v
                  /\ <<tasks'[e].season, tasks'[e].season_type>> = e
            /\ log'.dataTasks = Cardinality(Entries(config))
            /\ Entries(database') = {}]_vars
    /\ [](Resolving =>
            /\ Keys(database) = Keys(config)
            /\ log.dataTasks = Cardinality(Entries(config))
            /\ DOMAIN tasks \cup Entries(database) = Entries(config)
            /\ DOMAIN tasks \cap Entries(database) = {}
            /\ Cardinality(Entries(database)) + Cardinality(DOMAIN tasks)
                  = Cardinality(Entries(config)))
    /\ [](pc = "done" /\ log.dataSource = "web" =>
            /\ Entries(database) = Entries(config)
            /\ \A e \in Entries(config) :
                  database.v[e[1]].v[e[2]]
                     = ParseWebpage(StatPage(config.v[e[1]].v[e[2]].v)).value
            /\ dataFile = FileOf(Dumps(database)))

\* one of three tasks merged, two not yet drained
C16_Witness ==
    /\ pc = "data"
    /\ log.dataTasks = 3
    /\ Cardinality(Entries(database)) = 1
    /\ Cardinality(DOMAIN tasks) = 2

ExtractionErrors == {"ElementNotFoundError", "MissingAttributeError"}
HttpErrors == {"TimeoutException", "HTTPStatusError", "RequestError"}

\* C17: a run that fails on the content of a fetched document, in
\* load_config_from_web or in parse_webpage, fails with ElementNotFoundError
\* (a required node is absent) or MissingAttributeError (a required
\* attribute is absent on a present node).
C17_ExtractionErrorsAreTyped ==
    (outcome.kind = "raised" /\ outcome.exc \notin HttpErrors)
        => outcome.exc \in ExtractionErrors

\* the previous run resolved the Config and failed in the tasks of load_data
AfterDataFailure == run > 1 /\ prev.cfg.some /\ ~prev.data.some

\* C19: when the Config was resolved from the network and the tasks of
\* load_data then fail, url.json holds the resolved Config when the error
\* propagates and output.json is as it was; the following run takes that
\* Config from url.json and does not fetch it again.
C19_ConfigSurvivesDataFailure ==
    /\ (pc = "failed" /\ outcome.phase = "data" /\ log.cfgSource = "web")
          => /\ cfgFile = FileOf(Dumps(config))
             /\ log.cfgWrites = 1
             /\ dataFile = start.data
             /\ log.dataWrites = 0
    /\ (AfterDataFailure /\ PastConfigGate /\ log.dataSource # "cache")
          => /\ log.cfgSource = "cache"
             /\ config = prev.cfg.value
             /\ root = NotStarted
             /\ log.seasonTasks = 0
             /\ log.cfgWrites = 0

EmptyConfigs == {EmptyDict, SeasonOnlyCfg}
EmptyDatasetOf(cfg) == PyDict([s \in Keys(cfg) |-> EmptyDict])

\* C20: a url.json that holds the empty mapping, or a season mapped to the
\* empty mapping, is a cache hit; load_data then issues no request at all,
\* ends without error and writes the Dataset with the same seasons and no
\* entry; a Config resolved from the network never has zero seasons or a
\* season with zero season types: such a site makes the run fail with
\* ElementNotFoundError.
C20_EmptyCachedConfigIsUsed ==
    /\ \A cfg \in EmptyConfigs :
          (PastConfigGate /\ log.dataSource # "cache" /\ start.cfg = FileOf(Dumps(cfg)))
             => /\ is_valid_config(cfg)
                /\ log.cfgSource = "cache"
                /\ config = cfg
                /\ root = NotStarted /\ ~log.net
                /\ log.seasonTasks = 0 /\ log.dataTasks = 0 /\ tasks = NoTasks
                /\ cfgFile = start.cfg
                /\ pc \in {"spawn_data", "persist_data", "done"}
                /\ pc = "done" => /\ outcome = Returned(EmptyDatasetOf(cfg))
                                  /\ dataFile = FileOf(Dumps(EmptyDatasetOf(cfg)))
                                  /\ log.dataWrites = 1
    /\ log.cfgSource = "web" =>
          /\ Keys(config) # {}
          /\ \A s \in Keys(config) : Keys(config.v[s]) # {}
    /\ (root.result = "ok" /\ site.landing.found /\ Len(site.landing.options) = 0)
          => pc = "failed" /\ outcome.exc = "ElementNotFoundError"
    /\ (pc \in {"persist_config", "spawn_data", "data", "persist_data", "done"}
          /\ root.result = "ok")
          => \A s \in Listed(site.landing) : Len(site.pages[s].options) > 0

\* the empty Config was taken from url.json and the empty Dataset written
C20_Witness ==
    /\ pc = "done"
    /\ start.cfg = FileOf(Dumps(EmptyDict))
    /\ log.cfgSource = "cache"
    /\ dataFile = FileOf(Dumps(EmptyDict))
    /\ ~log.net

-----------------------------------------------------------------------------
(* Termination, checked under SpecLive *)

\* the GETs a call of get_soup has issued so far: one per frame
Attempts(c) == Len(c.frames)

\* C18: when every GET attempt ends and scheduling is fair, every run of
\* load_data ends, returning a Dataset or raising an error; neither task
\* loop waits forever; no call of get_soup makes more than retries + 1
\* attempts.
C18_EveryRunTerminates ==
    /\ []<>(\/ pc = "done" /\ outcome.kind = "returned"
            \/ pc = "failed" /\ outcome.kind = "raised")
    /\ []<>(pc \notin {"seasons", "data"})
    /\ [](/\ Attempts(root) <= DefaultRetries + 1
          /\ \A i \in DOMAIN tasks : Attempts(tasks[i].call) <= DefaultRetries + 1)

\* a run that went through both task loops, with two and with three tasks,
\* has returned
C18_Witness ==
    /\ pc = "done"
    /\ log.seasonTasks = 2
    /\ log.dataTasks = 3
    /\ outcome.kind = "returned"

=============================================================================
